---- MODULE Spec2Model ----
(***************************************************************************)
(* yaml2json (src/main.go): a YAML document, loaded from a file or over    *)
(* HTTP, is unmarshalled into map[interface{}]interface{}, rewritten by    *)
(* transformData into a tree json.Marshal accepts, and printed or written  *)
(* to the -output file.                                                    *)
(*                                                                         *)
(* A value of Go type interface{} is a record [kind, val]; kind is the     *)
(* value's runtime type as fmt's %T prints it.  Go strings are TLA+        *)
(* strings, read a byte at a time with SubSeq.                             *)
(***************************************************************************)
EXTENDS Integers, Sequences, FiniteSets, TLC

VARIABLES
    data,      \* YAMLToJSON's argument: the unmarshalled document
    runs,      \* the YAMLToJSON calls made on data so far, oldest first
    args,      \* os.Args[1:]
    output,    \* the -output flag's variable, line 22
    pc,        \* where the process is
    loads,     \* the loader calls made: which loader, with which path
    requests,  \* the GET requests sent
    resp,      \* loadHTTPBytes' resp
    loaded,    \* what the loader returned: the bytes and the error
    yamlDoc,   \* YAMLDoc's yamlDoc
    json,      \* main's json
    stdout,    \* the bytes written to standard output
    stderr,    \* the lines written to standard error
    files,     \* the files written: path to content
    exit,      \* the exit code, once exited
    stages,    \* the stages of the pipeline begun, oldest first
    failed     \* the stage that failed, for the properties

convVars == <<data, runs>>

mainVars == <<args, output, pc, loads, requests, resp, loaded, yamlDoc, json,
              stdout, stderr, files, exit, stages, failed>>

vars == <<convVars, mainVars>>

-----------------------------------------------------------------------------
(* Go values *)

StringT == "string"
IntT    == "int"
Int64T  == "int64"
Uint64T == "uint64"
FloatT  == "float64"
BoolT   == "bool"
NilT    == "<nil>"
SliceT  == "[]interface {}"
MapT    == "map[interface {}]interface {}"
MapStrT == "map[string]interface {}"

Val(kind, val) == [kind |-> kind, val |-> val]

\* The nil interface value, and the nil error.
Nil   == Val(NilT, 0)
NoErr == ""

\* A float64 is counted in tenths; nan marks the one value that is no number.
Float(tenths) == Val(FloatT, [nan |-> FALSE, tenths |-> tenths])
NaN           == Val(FloatT, [nan |-> TRUE, tenths |-> 0])

\* The empty map[string]interface{} made at line 121.
EmptyMap == [sk \in {} |-> Nil]

-----------------------------------------------------------------------------
(* strconv.Itoa, line 128 *)

\* The i-th byte of s, or "" past its ends.
At(s, i) == IF i >= 1 /\ i <= Len(s) THEN SubSeq(s, i, i) ELSE ""

Digit(d) == SubSeq("0123456789", d + 1, d + 1)

RECURSIVE FormatUint(_)
FormatUint(n) ==
    IF n < 10 THEN Digit(n) ELSE FormatUint(n \div 10) \o Digit(n % 10)

\* Itoa without the sign.
Itoa_Unsigned(i) == FormatUint(IF i < 0 THEN 0 - i ELSE i)

Itoa(i) == IF i < 0 THEN "-" \o FormatUint(0 - i) ELSE FormatUint(i)

-----------------------------------------------------------------------------
(* transformData, lines 118-152 *)

Result(out, err) == [out |-> out, err |-> err]

KeyTypeError(k) ==
    "types don't match: expect map key string or int get: " \o k.kind

Kinds == {StringT, IntT, Int64T, Uint64T, FloatT, BoolT, NilT, SliceT, MapT, MapStrT}

\* err is the error of line 130.
IsKeyTypeError(err) == \E k \in Kinds : err = KeyTypeError(Val(k, 0))

RECURSIVE transformData(_)
RECURSIVE rangeMap(_, _)
RECURSIVE rangeSlice(_, _)

\* The switch with a default case that names the key after its type.
CoerceKey_AnyKey(k) ==
    CASE k.kind = StringT -> [sk |-> k.val, err |-> NoErr]
      [] k.kind = IntT    -> [sk |-> Itoa(k.val), err |-> NoErr]
      [] OTHER            -> [sk |-> k.kind, err |-> NoErr]

\* The switch on the key's type, lines 123-131: the string key sk, or the error.
CoerceKey(k) ==
    CASE k.kind = StringT -> [sk |-> k.val, err |-> NoErr]
      [] k.kind = IntT    -> [sk |-> Itoa(k.val), err |-> NoErr]
      [] OTHER            -> [sk |-> "", err |-> KeyTypeError(k)]

\* The range loop leaving at an unsupported key with the map built so far.
rangeMap_BreakOnKey(entries, o) ==
    IF entries = <<>> THEN Result(Val(MapStrT, o), NoErr)
    ELSE LET k  == Head(entries).k
             ck == CoerceKey(k)
         IN  IF ck.err # NoErr THEN Result(Val(MapStrT, o), NoErr)
             ELSE LET v == transformData(Head(entries).v)
                  IN  IF v.err # NoErr THEN Result(Nil, v.err)
                      ELSE rangeMap(Tail(entries), (ck.sk :> v.out) @@ o)

\* The range loop of lines 122-137 over the entries not yet visited, in the
\* order this run's iteration visits them; o is the map built so far.
rangeMap(entries, o) ==
    IF entries = <<>> THEN Result(Val(MapStrT, o), NoErr)
    ELSE LET k  == Head(entries).k
             ck == CoerceKey(k)
         IN  IF ck.err # NoErr THEN Result(Nil, ck.err)
             ELSE LET v == transformData(Head(entries).v)
                  IN  IF v.err # NoErr THEN Result(Nil, v.err)
                      ELSE rangeMap(Tail(entries), (ck.sk :> v.out) @@ o)

\* The for loop storing the elements as they are.
rangeSlice_Copy(in1, o) == Result(Val(SliceT, in1), NoErr)

\* The for loop filling o from its end.
rangeSlice_Backwards(in1, o) ==
    IF Len(o) = Len(in1) THEN Result(Val(SliceT, o), NoErr)
    ELSE LET e == transformData(in1[Len(o) + 1])
         IN  IF e.err # NoErr THEN Result(Nil, e.err)
             ELSE rangeSlice(in1, <<e.out>> \o o)

\* The for loop of lines 143-148 over the elements from index Len(o) on.
rangeSlice(in1, o) ==
    IF Len(o) = Len(in1) THEN Result(Val(SliceT, o), NoErr)
    ELSE LET e == transformData(in1[Len(o) + 1])
         IN  IF e.err # NoErr THEN Result(Nil, e.err)
             ELSE rangeSlice(in1, Append(o, e.out))

transformData(in) ==
    CASE in.kind = MapT   -> rangeMap(in.val, EmptyMap)
      [] in.kind = SliceT -> rangeSlice(in.val, <<>>)
      [] OTHER            -> Result(in, NoErr)

-----------------------------------------------------------------------------
(* json.Marshal, line 105 *)

\* The bytes of the model's strings, in ascending order.
ByteOrder == "\"-.0123456789:[\\]abcdefghijklmnopqrstuvwxyz{}"

Ord(c) == CHOOSE i \in 1..Len(ByteOrder) : SubSeq(ByteOrder, i, i) = c

\* a < b as Go compares strings: bytewise.
RECURSIVE Less(_, _)
Less(a, b) ==
    CASE b = "" -> FALSE
      [] a = "" -> TRUE
      [] Head(a) # Head(b) -> Ord(Head(a)) < Ord(Head(b))
      [] OTHER -> Less(Tail(a), Tail(b))

\* encoding/json writes a map's keys sorted.
RECURSIVE SortedKeys(_)
SortedKeys(S) ==
    IF S = {} THEN <<>>
    ELSE LET m == CHOOSE k \in S : \A j \in S \ {k} : Less(k, j)
         IN  <<m>> \o SortedKeys(S \ {m})

\* A string's bytes with the quote and the backslash escaped.
RECURSIVE Escape(_)
Escape(s) ==
    IF s = "" THEN ""
    ELSE LET c == Head(s)
         IN  (IF c = "\"" \/ c = "\\" THEN "\\" \o c ELSE c) \o Escape(Tail(s))

Quote(s) == "\"" \o Escape(s) \o "\""

\* A finite float64 in the shortest decimal form that reads back as itself.
FormatFloat(f) ==
    LET a == IF f.tenths < 0 THEN 0 - f.tenths ELSE f.tenths
    IN  (IF f.tenths < 0 THEN "-" ELSE "")
        \o FormatUint(a \div 10)
        \o (IF a % 10 = 0 THEN "" ELSE "." \o Digit(a % 10))

Encoded(b, err) == [b |-> b, err |-> err]

RECURSIVE encode(_)
RECURSIVE encodeArray(_, _, _)
RECURSIVE encodeMap(_, _, _, _)

\* The elements from index i on, appended to b.
encodeArray(elems, i, b) ==
    IF i > Len(elems) THEN Encoded(b \o "]", NoErr)
    ELSE LET e == encode(elems[i])
         IN  IF e.err # NoErr THEN Encoded("", e.err)
             ELSE encodeArray(elems, i + 1,
                              b \o (IF i > 1 THEN "," ELSE "") \o e.b)

\* The entries of m under keys[i], keys[i+1], ..., appended to b.
encodeMap(m, keys, i, b) ==
    IF i > Len(keys) THEN Encoded(b \o "}", NoErr)
    ELSE LET e == encode(m[keys[i]])
         IN  IF e.err # NoErr THEN Encoded("", e.err)
             ELSE encodeMap(m, keys, i + 1,
                            b \o (IF i > 1 THEN "," ELSE "")
                              \o Quote(keys[i]) \o ":" \o e.b)

encode(v) ==
    CASE v.kind = StringT -> Encoded(Quote(v.val), NoErr)
      [] v.kind = IntT    -> Encoded(Itoa(v.val), NoErr)
      [] v.kind \in {Int64T, Uint64T} -> Encoded(v.val, NoErr)
      [] v.kind = FloatT  ->
            IF v.val.nan THEN Encoded("", "json: unsupported value: NaN")
            ELSE Encoded(FormatFloat(v.val), NoErr)
      [] v.kind = BoolT   -> Encoded(IF v.val THEN "true" ELSE "false", NoErr)
      [] v.kind = NilT    -> Encoded("null", NoErr)
      [] v.kind = SliceT  -> encodeArray(v.val, 1, "[")
      [] v.kind = MapStrT -> encodeMap(v.val, SortedKeys(DOMAIN v.val), 1, "{")
      [] OTHER            -> Encoded("", "json: unsupported type: " \o v.kind)

\* json.Marshal: the encoding, or no bytes and the first error met.
Marshal(v) == encode(v)

-----------------------------------------------------------------------------
(* YAMLToJSON, lines 99-107 *)

\* jm is kept beside the returned pair for the properties of the tree.
YAMLToJSON(in) ==
    LET t == transformData(in)
    IN  IF t.err # NoErr THEN [jm |-> Nil, json |-> "", err |-> t.err]
        ELSE LET m == Marshal(t.out)
             IN  [jm |-> t.out, json |-> m.b, err |-> m.err]

-----------------------------------------------------------------------------
(* The documents yaml.Unmarshal can hand to YAMLToJSON *)

\* A document has at most MaxNodes nodes: every scalar, every key and every
\* container counts one.
MaxNodes == 5

\* YAMLToJSON is called at most MaxRuns times on one document.
MaxRuns == 2

\* A key an integer too large for int: yaml.v2 decodes it as uint64.
BigKey == Val(Uint64T, "9223372036854775808")

\* The keys of the model's mappings.  A Go map holds no slice and no map as
\* a key, and yaml.Unmarshal rejects a document that has one.
Keys ==
    << Val(StringT, "1"), Val(IntT, 1), Val(IntT, 0 - 12), BigKey,
       Float(15), Val(BoolT, TRUE), Nil >>

Scalars ==
    { Val(StringT, "a"), Val(IntT, 7), Float(15), NaN, Val(BoolT, TRUE), Nil }

Entry(k, v) == [k |-> k, v |-> v]

\* Level n of the documents: the nodes of exactly n nodes, and, for the next
\* levels, the element lists (slices) and the entry lists (entries[r], whose
\* keys follow Keys[r]) of n nodes in all.  A mapping has no key twice, and
\* the order of a mapping's entries in data means nothing.
Level(prev, n) ==
    LET slicesAt(m)     == IF m = 0 THEN {<<>>} ELSE prev[m].slices
        entriesAt(m, r) == IF m = 0 THEN {<<>>} ELSE prev[m].entries[r]
        nodes ==
            IF n = 1 THEN Scalars \cup {Val(SliceT, <<>>), Val(MapT, <<>>)}
            ELSE { Val(SliceT, es) : es \in slicesAt(n - 1) }
                 \cup { Val(MapT, es) : es \in entriesAt(n - 1, 0) }
        nodesAt(s) == IF s = n THEN nodes ELSE prev[s].nodes
    IN  [ nodes   |-> nodes,
          slices  |->
              IF n >= MaxNodes - 1 THEN {}
              ELSE UNION { { <<x>> \o rest : x \in nodesAt(s),
                                             rest \in slicesAt(n - s) } :
                           s \in 1..n },
          entries |->
              [ r \in 0..Len(Keys) |->
                  IF n >= MaxNodes - 1 THEN {}
                  ELSE UNION { { <<Entry(Keys[i], x)>> \o rest :
                                     x \in nodesAt(s),
                                     rest \in entriesAt(n - 1 - s, i) } :
                               i \in (r + 1)..Len(Keys), s \in 1..(n - 1) } ] ]

RECURSIVE Levels(_)
Levels(n) ==
    IF n = 0 THEN <<>>
    ELSE LET prev == Levels(n - 1) IN Append(prev, Level(prev, n))

\* The levels below the root's.
DocLevels == Levels(MaxNodes - 1)

SlicesAt(m)     == IF m = 0 THEN {<<>>} ELSE DocLevels[m].slices
EntriesAt(m, r) == IF m = 0 THEN {<<>>} ELSE DocLevels[m].entries[r]

\* d is a document: a scalar or an empty container, or a container whose
\* first element or entry holds x, of s nodes, before rest.
IsDoc(d) ==
    \/ d \in Level(<<>>, 1).nodes
    \/ \E s \in 1..(MaxNodes - 1) : \E x \in DocLevels[s].nodes :
          \/ \E m \in 0..(MaxNodes - 1 - s) : \E rest \in SlicesAt(m) :
                d = Val(SliceT, <<x>> \o rest)
          \/ \E i \in 1..Len(Keys) : \E m \in 0..(MaxNodes - 2 - s) :
                \E rest \in EntriesAt(m, i) :
                    d = Val(MapT, <<Entry(Keys[i], x)>> \o rest)

\* Go visits a map's entries in an order of its choosing, anew at every range.
RECURSIVE Perms(_)
Perms(s) ==
    IF s = <<>> THEN {<<>>}
    ELSE UNION { { <<s[i]>> \o p :
                     p \in Perms(SubSeq(s, 1, i - 1) \o SubSeq(s, i + 1, Len(s))) } :
                 i \in 1..Len(s) }

RECURSIVE IterationOrders(_)
RECURSIVE EachElement(_)
RECURSIVE EachEntry(_)

EachElement(es) ==
    IF es = <<>> THEN {<<>>}
    ELSE { <<x>> \o rest : x \in IterationOrders(Head(es)),
                           rest \in EachElement(Tail(es)) }

EachEntry(es) ==
    IF es = <<>> THEN {<<>>}
    ELSE { <<Entry(Head(es).k, x)>> \o rest :
               x \in IterationOrders(Head(es).v), rest \in EachEntry(Tail(es)) }

\* data with the entries of every mapping in the order one run visits them.
IterationOrders(d) ==
    CASE d.kind = MapT   -> { Val(MapT, p) : p \in UNION { Perms(es) : es \in EachEntry(d.val) } }
      [] d.kind = SliceT -> { Val(SliceT, es) : es \in EachElement(d.val) }
      [] OTHER           -> {d}

-----------------------------------------------------------------------------
(* The process: main, lines 29-57, and what it calls *)

HasPrefix(s, prefix) ==
    Len(s) >= Len(prefix) /\ SubSeq(s, 1, Len(prefix)) = prefix

NoResp == [got |-> FALSE, status |-> 0, body |-> "", closed |-> FALSE]

NoFiles == [f \in {} |-> ""]

\* main has not begun; args is set by the specification.
Idle ==
    /\ output = ""
    /\ pc = "main"
    /\ loads = <<>>
    /\ requests = 0
    /\ resp = NoResp
    /\ loaded = Encoded("", NoErr)
    /\ yamlDoc = Nil
    /\ json = ""
    /\ stdout = ""
    /\ stderr = <<>>
    /\ files = NoFiles
    /\ exit = 0
    /\ stages = <<>>
    /\ failed = ""

\* No process: YAMLToJSON called as a library function.
NotStarted == args = <<>> /\ Idle

\* The index of the first "=" of name after its first byte, or 0.
EqualsAt(name) ==
    IF \E i \in 2..Len(name) : At(name, i) = "="
    THEN CHOOSE i \in 2..Len(name) :
            At(name, i) = "=" /\ \A j \in 2..(i - 1) : At(name, j) # "="
    ELSE 0

\* flag.Parse, line 35, with the one flag line 26 defines: the arguments up to
\* the first that is no flag are read as flags; out is -output's value.
RECURSIVE flagParse(_, _)
flagParse(rest, out) ==
    LET s       == Head(rest)
        minuses == IF At(s, 2) = "-" THEN 2 ELSE 1
        name0   == SubSeq(s, minuses + 1, Len(s))
        eq      == EqualsAt(name0)
        name    == IF eq # 0 THEN SubSeq(name0, 1, eq - 1) ELSE name0
        done    == [output |-> out, err |-> NoErr]
    IN  CASE rest = <<>> -> done
          [] Len(s) < 2 \/ At(s, 1) # "-" -> done
          [] s = "--" -> done
          [] name0 = "" \/ At(name0, 1) \in {"-", "="} ->
                [output |-> out, err |-> "bad flag syntax: " \o s]
          [] name # "output" ->
                [output |-> out, err |-> "flag provided but not defined: -" \o name]
          [] eq # 0 -> flagParse(Tail(rest), SubSeq(name0, eq + 1, Len(name0)))
          [] Len(rest) > 1 -> flagParse(Tail(Tail(rest)), rest[2])
          [] OTHER -> [output |-> out, err |-> "flag needs an argument: -" \o name]

\* LoadStrategy, lines 65-70.
LoadStrategy(path, local, remote) ==
    IF HasPrefix(path, "http") THEN remote ELSE local

\* The location names a resource on the network.
IsURL(path) == HasPrefix(path, "http://") \/ HasPrefix(path, "https://")

IsHex(c) == c # "" /\ \E i \in 1..16 : At("0123456789abcdef", i) = c

\* http.NewRequest, line 75, refuses a URL with a "%" that starts no escape.
InvalidURL(path) ==
    \E i \in 1..Len(path) :
        At(path, i) = "%" /\ ~(IsHex(At(path, i + 1)) /\ IsHex(At(path, i + 2)))

StatusOK == 200

\* The status of the response client.Do returns with the error of a refused
\* redirect.
StatusFound == 302

Status(code) ==
    CASE code = 200 -> "200 OK"
      [] code = 204 -> "204 No Content"
      [] code = 302 -> "302 Found"
      [] code = 404 -> "404 Not Found"
      [] OTHER      -> "500 Internal Server Error"

\* The statuses a server of the model answers with.
Statuses == {200, 204, 404}

StatusError(path, code) ==
    "could not access document at " \o Quote(path) \o " [" \o Status(code) \o "] "

\* The YAML texts a file or a response body of the model holds, and what
\* yaml.Unmarshal, line 111, makes of each.
Widget  == "{name: widget, count: 3}"
IntKeys == "{1: a, 2: b}"
FloatKey == "{1.5: a}"
NaNValue == "{x: .nan}"
MapKey  == "{{x: 1}: y}"
Broken  == "{x: ["

Contents == {Widget, IntKeys, FloatKey, NaNValue, MapKey, Broken}

Str(s) == Val(StringT, s)

Unmarshal(b) ==
    CASE b = Widget ->
            Result(Val(MapT, << Entry(Str("name"), Str("widget")),
                                Entry(Str("count"), Val(IntT, 3)) >>), NoErr)
      [] b = IntKeys ->
            Result(Val(MapT, << Entry(Val(IntT, 1), Str("a")),
                                Entry(Val(IntT, 2), Str("b")) >>), NoErr)
      [] b = FloatKey ->
            Result(Val(MapT, << Entry(Float(15), Str("a")) >>), NoErr)
      [] b = NaNValue ->
            Result(Val(MapT, << Entry(Str("x"), NaN) >>), NoErr)
      [] b = MapKey ->
            Result(Nil, "yaml: invalid map key: map[interface {}]interface {}{\"x\":1}")
      [] OTHER ->
            Result(Nil, "yaml: line 1: did not find expected node content")

\* bytesToYAMLDoc, lines 109-116.
bytesToYAMLDoc(b) ==
    LET document == Unmarshal(b)
    IN  IF document.err # NoErr THEN Result(Nil, document.err) ELSE document

\* The deferred function of lines 80-86, run as loadHTTPBytes returns.
deferredClose_OnSuccess(r) ==
    IF r.got /\ r.status = StatusOK THEN [r EXCEPT !.closed = TRUE] ELSE r

deferredClose(r) == IF r.got THEN [r EXCEPT !.closed = TRUE] ELSE r

\* main's error exit, lines 43-46 and 52-55: the message, then os.Exit(1).
Fail(msg, stage) ==
    /\ stderr' = Append(stderr, msg)
    /\ exit' = 1
    /\ pc' = "exited"
    /\ failed' = stage

\* flag.Parse, line 35: an error of the command line ends the process with 2.
FlagParse ==
    /\ pc = "main"
    /\ LET f == flagParse(args, output)
       IN  IF f.err # NoErr
           THEN /\ stderr' = Append(stderr, f.err)
                /\ exit' = 2
                /\ pc' = "exited"
                /\ failed' = "flags"
                /\ UNCHANGED output
           ELSE /\ output' = f.output
                /\ pc' = "args"
                /\ UNCHANGED <<stderr, exit, failed>>
    /\ UNCHANGED <<convVars, args, loads, requests, resp, loaded, yamlDoc, json,
                   stdout, files, stages>>

\* Lines 37-42: len(os.Args) < 2, or YAMLDoc(os.Args[1]) down to the loader
\* LoadStrategy picks at line 61.
CheckArgs ==
    /\ pc = "args"
    /\ IF Len(args) + 1 < 2
       THEN /\ Fail("you need to provide the file path or url to load", "argument")
            /\ UNCHANGED <<loads, stages>>
       ELSE /\ pc' = LoadStrategy(args[1], "ReadFile", "loadHTTPBytes")
            /\ loads' = Append(loads,
                  [ loader |-> LoadStrategy(args[1], "ReadFile", "loadHTTPBytes"),
                    path   |-> args[1] ])
            /\ stages' = Append(stages, "load")
            /\ UNCHANGED <<stderr, exit, failed>>
    /\ UNCHANGED <<convVars, args, output, requests, resp, loaded, yamlDoc, json,
                   stdout, files>>

Path == loads[Len(loads)].path

\* What YAMLData does with the loader's return, lines 171-176, and YAMLDoc and
\* main with an error, lines 157-159 and 43-46.
Loaded(ret) ==
    /\ loaded' = ret
    /\ IF ret.err # NoErr
       THEN Fail(ret.err, "load")
       ELSE pc' = "parse" /\ UNCHANGED <<stderr, exit, failed>>

\* ioutil.ReadFile(path), the local loader: the file's bytes, or an error.
ReadFile ==
    /\ pc = "ReadFile"
    /\ \E ret \in { Encoded(b, NoErr) : b \in Contents }
                  \cup { Encoded("", "open " \o Path \o ": no such file or directory") } :
           Loaded(ret)
    /\ UNCHANGED <<convVars, args, output, loads, requests, resp, yamlDoc, json,
                   stdout, files, stages>>

\* Lines 74-78: the return of line 77 comes before the defer of line 80, so
\* no deferred function runs on it.
NewRequest ==
    /\ pc = "loadHTTPBytes"
    /\ IF InvalidURL(Path)
       THEN Loaded(Encoded("", "parse " \o Quote(Path) \o ": invalid URL escape"))
       ELSE /\ pc' = "Do"
            /\ UNCHANGED <<loaded, stderr, exit, failed>>
    /\ UNCHANGED <<convVars, args, output, loads, requests, resp, yamlDoc, json,
                   stdout, files, stages>>

\* client.Do(req), line 79: no response and an error (no connection, the
\* timeout, a location that is no URL), or a response already closed and an
\* error (a refused redirect), or a response.  Then the check of lines 87-89.
Do ==
    /\ pc = "Do"
    /\ requests' = requests + 1
    /\ \E r \in { [resp |-> NoResp, err |-> "Get " \o Quote(Path) \o ": no response"] }
                \cup { [resp |-> [got |-> TRUE, status |-> StatusFound, body |-> "",
                                  closed |-> TRUE],
                        err  |-> "Get " \o Quote(Path) \o ": stopped after 10 redirects"] }
                \cup { [resp |-> [got |-> TRUE, status |-> c, body |-> b, closed |-> FALSE],
                        err  |-> NoErr] :
                       c \in Statuses, b \in Contents } :
          /\ r.resp.got => IsURL(Path)
          /\ resp' = r.resp
          /\ IF r.err # NoErr
             THEN pc' = "return" /\ loaded' = Encoded("", r.err)
             ELSE pc' = "status" /\ UNCHANGED loaded
    /\ UNCHANGED <<convVars, args, output, loads, yamlDoc, json,
                   stdout, stderr, files, exit, stages, failed>>

\* Lines 91-95: the status check, then ioutil.ReadAll(resp.Body), which returns
\* the whole body, or what it read before an error, with the error.
ReadAll ==
    /\ pc = "status"
    /\ IF resp.status # StatusOK
       THEN loaded' = Encoded("", StatusError(Path, resp.status))
       ELSE \E n \in {0, Len(resp.body)} :
               loaded' = Encoded(SubSeq(resp.body, 1, n),
                                 IF n = Len(resp.body) THEN NoErr ELSE "unexpected EOF")
    /\ pc' = "return"
    /\ UNCHANGED <<convVars, args, output, loads, requests, resp, yamlDoc, json,
                   stdout, stderr, files, exit, stages, failed>>

\* loadHTTPBytes returns: the deferred function runs, and YAMLData goes on.
Return ==
    /\ pc = "return"
    /\ resp' = deferredClose(resp)
    /\ Loaded(loaded)
    /\ UNCHANGED <<convVars, args, output, loads, requests, yamlDoc, json,
                   stdout, files, stages>>

\* bytesToYAMLDoc(data), line 176.
Parse ==
    /\ pc = "parse"
    /\ stages' = Append(stages, "parse")
    /\ LET d == bytesToYAMLDoc(loaded.b)
       IN  IF d.err # NoErr
           THEN Fail(d.err, "parse") /\ UNCHANGED yamlDoc
           ELSE /\ yamlDoc' = d.out
                /\ pc' = "YAMLToJSON"
                /\ UNCHANGED <<stderr, exit, failed>>
    /\ UNCHANGED <<convVars, args, output, loads, requests, resp, loaded, json,
                   stdout, files>>

\* YAMLToJSON(yamlDoc), line 161: transformData, then json.Marshal.
Transcode ==
    /\ pc = "YAMLToJSON"
    /\ \E iter \in IterationOrders(yamlDoc) :
          LET r == YAMLToJSON(iter)
          IN  /\ stages' = stages \o (IF IsKeyTypeError(r.err) THEN <<"normalize">>
                                      ELSE <<"normalize", "serialize">>)
              /\ IF r.err # NoErr
                 THEN /\ Fail(r.err, IF IsKeyTypeError(r.err) THEN "normalize"
                                     ELSE "serialize")
                      /\ UNCHANGED json
                 ELSE /\ json' = r.json
                      /\ pc' = "emit"
                      /\ UNCHANGED <<stderr, exit, failed>>
    /\ UNCHANGED <<convVars, args, output, loads, requests, resp, loaded, yamlDoc,
                   stdout, files>>

\* fmt.Println(string(json)), lines 48-49, whose error is dropped; main then
\* returns, and the process ends with 0.
Println ==
    /\ pc = "emit"
    /\ output = ""
    /\ \E written \in BOOLEAN :
          /\ stdout' = IF written THEN stdout \o json \o "\n" ELSE stdout
          /\ failed' = IF written THEN "" ELSE "emit"
    /\ stages' = Append(stages, "emit")
    /\ exit' = 0
    /\ pc' = "exited"
    /\ UNCHANGED <<convVars, args, output, loads, requests, resp, loaded, yamlDoc,
                   json, stderr, files>>

\* ioutil.WriteFile(output, json, 0600), lines 51-55: the file is written, or
\* an error leaves it as it was, or created and empty.
WriteFile ==
    /\ pc = "emit"
    /\ output # ""
    /\ stages' = Append(stages, "emit")
    /\ \E outcome \in {"written", "not opened", "not written"} :
          /\ files' = CASE outcome = "written"     -> (output :> json) @@ files
                        [] outcome = "not written" -> (output :> "") @@ files
                        [] OTHER                   -> files
          /\ IF outcome = "written"
             THEN /\ exit' = 0
                  /\ pc' = "exited"
                  /\ UNCHANGED <<stderr, failed>>
             ELSE Fail("open " \o output \o ": permission denied", "emit")
    /\ UNCHANGED <<convVars, args, output, loads, requests, resp, loaded, yamlDoc,
                   json, stdout>>

\* The command lines of the model: at most MaxArgs arguments.
MaxArgs == 3

ArgTokens ==
    { "-output", "-output=out.json", "out.json", "doc.yaml", "httpd.yaml",
      "http://h/doc.yaml", "http://%zz" }

InitMain ==
    /\ data = Nil
    /\ runs = <<>>
    /\ args \in UNION { [1..n -> ArgTokens] : n \in 0..MaxArgs }
    /\ Idle

NextMain ==
    \/ FlagParse
    \/ CheckArgs
    \/ ReadFile
    \/ NewRequest
    \/ Do
    \/ ReadAll
    \/ Return
    \/ Parse
    \/ Transcode
    \/ Println
    \/ WriteFile

SpecMain == InitMain /\ [][NextMain]_vars

-----------------------------------------------------------------------------
(* Conversions of one document *)

InitConv ==
    /\ IsDoc(data)
    /\ runs = <<>>
    /\ NotStarted

\* One call YAMLToJSON(data); iter is the order its ranges visit the entries.
Convert ==
    /\ Len(runs) < MaxRuns
    /\ \E iter \in IterationOrders(data) :
           runs' = Append(runs, [iter |-> iter] @@ YAMLToJSON(iter))
    /\ UNCHANGED <<data, mainVars>>

NextConv == Convert

SpecConv == InitConv /\ [][NextConv]_vars
-----------------------------------------------------------------------------
(* Reading JSON text back, for the properties of YAMLToJSON's bytes *)

IsDigit(c) == \E d \in 0..9 : Digit(d) = c

DigitVal(c) == CHOOSE d \in 0..9 : Digit(d) = c

Parsed(v, next) == [ok |-> TRUE, v |-> v, next |-> next]

NotParsed == [ok |-> FALSE, v |-> Nil, next |-> 0]

\* The digits of s from i on: their value and the index after them.
RECURSIVE parseDigits(_, _, _)
parseDigits(s, i, acc) ==
    IF IsDigit(At(s, i)) THEN parseDigits(s, i + 1, acc * 10 + DigitVal(At(s, i)))
    ELSE [n |-> acc, next |-> i]

\* A number with at most one digit after the point, in tenths.
parseNumber(s, i) ==
    LET neg  == At(s, i) = "-"
        j    == IF neg THEN i + 1 ELSE i
        int  == parseDigits(s, j, 0)
        frac == At(s, int.next) = "." /\ IsDigit(At(s, int.next + 1))
        abs  == int.n * 10 + (IF frac THEN DigitVal(At(s, int.next + 1)) ELSE 0)
    IN  IF int.next = j \/ (int.next > j + 1 /\ At(s, j) = "0") THEN NotParsed
        ELSE Parsed(Float(IF neg THEN 0 - abs ELSE abs),
                    IF frac THEN int.next + 2 ELSE int.next)

\* The string whose opening quote is before i, acc its bytes so far.
RECURSIVE parseString(_, _, _)
parseString(s, i, acc) ==
    LET c == At(s, i)
    IN  CASE c = ""   -> NotParsed
          [] c = "\"" -> Parsed(Val(StringT, acc), i + 1)
          [] c = "\\" -> IF At(s, i + 1) = "" THEN NotParsed
                         ELSE parseString(s, i + 2, acc \o At(s, i + 1))
          [] OTHER    -> parseString(s, i + 1, acc \o c)

Literal(s, i, word, v) ==
    IF i + Len(word) - 1 <= Len(s) /\ SubSeq(s, i, i + Len(word) - 1) = word
    THEN Parsed(v, i + Len(word)) ELSE NotParsed

RECURSIVE parseValue(_, _)
RECURSIVE parseElements(_, _, _)
RECURSIVE parseMembers(_, _, _)

\* The elements of an array from i on, after those of acc.
parseElements(s, i, acc) ==
    LET e == parseValue(s, i)
    IN  IF ~e.ok THEN NotParsed
        ELSE CASE At(s, e.next) = "," -> parseElements(s, e.next + 1, Append(acc, e.v))
               [] At(s, e.next) = "]" -> Parsed(Val(SliceT, Append(acc, e.v)), e.next + 1)
               [] OTHER -> NotParsed

\* The members of an object from i on, after those of acc; a name met again
\* replaces the earlier member.
parseMembers(s, i, acc) ==
    LET k == IF At(s, i) = "\"" THEN parseString(s, i + 1, "") ELSE NotParsed
        e == IF k.ok /\ At(s, k.next) = ":" THEN parseValue(s, k.next + 1) ELSE NotParsed
        m == (k.v.val :> e.v) @@ acc
    IN  IF ~e.ok THEN NotParsed
        ELSE CASE At(s, e.next) = "," -> parseMembers(s, e.next + 1, m)
               [] At(s, e.next) = "}" -> Parsed(Val(MapStrT, m), e.next + 1)
               [] OTHER -> NotParsed

parseValue(s, i) ==
    LET c == At(s, i)
    IN  CASE c = "\"" -> parseString(s, i + 1, "")
          [] c = "{"  -> IF At(s, i + 1) = "}" THEN Parsed(Val(MapStrT, EmptyMap), i + 2)
                         ELSE parseMembers(s, i + 1, EmptyMap)
          [] c = "["  -> IF At(s, i + 1) = "]" THEN Parsed(Val(SliceT, <<>>), i + 2)
                         ELSE parseElements(s, i + 1, <<>>)
          [] c = "t"  -> Literal(s, i, "true", Val(BoolT, TRUE))
          [] c = "f"  -> Literal(s, i, "false", Val(BoolT, FALSE))
          [] c = "n"  -> Literal(s, i, "null", Nil)
          [] c = "-" \/ IsDigit(c) -> parseNumber(s, i)
          [] OTHER    -> NotParsed

\* The value the JSON text b denotes, when b is one JSON value and no more.
IsJSON(b) == LET r == parseValue(b, 1) IN r.ok /\ r.next = Len(b) + 1

ParseJSON(b) == parseValue(b, 1).v
-----------------------------------------------------------------------------
(* What the conversion is to do, stated without the code's own operators *)

IntegerKinds == {IntT, Int64T, Uint64T}

\* The value of a string of decimal digits.
RECURSIVE DecimalValue(_)
DecimalValue(t) ==
    IF t = "" THEN 0
    ELSE DecimalValue(SubSeq(t, 1, Len(t) - 1)) * 10 + DigitVal(At(t, Len(t)))

\* t is the canonical base-10 form of n: digits only, no leading zero, and a
\* leading "-" exactly when n is negative.
IsDecimalOf(t, n) ==
    LET neg    == At(t, 1) = "-"
        digits == IF neg THEN Tail(t) ELSE t
    IN  /\ digits # ""
        /\ \A i \in 1..Len(digits) : IsDigit(At(digits, i))
        /\ Len(digits) > 1 => At(digits, 1) # "0"
        /\ neg <=> n < 0
        /\ DecimalValue(digits) = (IF n < 0 THEN 0 - n ELSE n)

\* t is the text of the key k: k itself, or the decimal form of the integer k.
IsTextOf(t, k) ==
    CASE k.kind = StringT -> t = k.val
      [] k.kind = IntT    -> IsDecimalOf(t, k.val)
      [] k.kind \in {Int64T, Uint64T} -> t = k.val
      [] OTHER            -> FALSE

\* The keys of every mapping of d.
RECURSIVE KeysOf(_)
KeysOf(d) ==
    CASE d.kind = MapT ->
            { d.val[i].k : i \in DOMAIN d.val }
                \cup UNION { KeysOf(d.val[i].v) : i \in DOMAIN d.val }
      [] d.kind = SliceT -> UNION { KeysOf(d.val[i]) : i \in DOMAIN d.val }
      [] OTHER -> {}

KeyKindsOf(d) == { k.kind : k \in KeysOf(d) }

RECURSIVE HasNaN(_)
HasNaN(d) ==
    CASE d.kind = MapT   -> \E i \in DOMAIN d.val : HasNaN(d.val[i].v)
      [] d.kind = SliceT -> \E i \in DOMAIN d.val : HasNaN(d.val[i])
      [] OTHER -> d = NaN

\* Two keys of one mapping have the same text.
Collide(k1, k2) ==
    \/ k1.kind = StringT /\ k2.kind = IntT /\ IsDecimalOf(k1.val, k2.val)
    \/ k2.kind = StringT /\ k1.kind = IntT /\ IsDecimalOf(k2.val, k1.val)

RECURSIVE HasCollision(_)
HasCollision(d) ==
    CASE d.kind = MapT ->
            \/ \E i, j \in DOMAIN d.val : Collide(d.val[i].k, d.val[j].k)
            \/ \E i \in DOMAIN d.val : HasCollision(d.val[i].v)
      [] d.kind = SliceT -> \E i \in DOMAIN d.val : HasCollision(d.val[i])
      [] OTHER -> FALSE

\* p is d with every key as its text.  With read, p was read back from JSON
\* text, where an int is a number; with counted, every mapping of p has as
\* many entries as d's; without, entries of d whose keys have one text are
\* one entry of p, holding the value of one of them.
RECURSIVE Image(_, _, _, _)
Image(d, p, read, counted) ==
    CASE d.kind = MapT ->
            /\ p.kind = MapStrT
            /\ counted => Cardinality(DOMAIN p.val) = Len(d.val)
            /\ \A i \in DOMAIN d.val : \E t \in DOMAIN p.val : IsTextOf(t, d.val[i].k)
            /\ \A t \in DOMAIN p.val : \E i \in DOMAIN d.val :
                  /\ IsTextOf(t, d.val[i].k)
                  /\ Image(d.val[i].v, p.val[t], read, counted)
      [] d.kind = SliceT ->
            /\ p.kind = SliceT
            /\ Len(p.val) = Len(d.val)
            /\ \A i \in DOMAIN d.val : Image(d.val[i], p.val[i], read, counted)
      [] d.kind = IntT /\ read -> p = Float(10 * d.val)
      [] OTHER -> p = d

Run(i) == runs[i]

Ran == DOMAIN runs

-----------------------------------------------------------------------------
(* C1 *)

RECURSIVE TextKeysOnly(_)
TextKeysOnly(v) ==
    CASE v.kind = MapStrT ->
            \A sk \in DOMAIN v.val : sk \in STRING /\ TextKeysOnly(v.val[sk])
      [] v.kind = SliceT -> \A i \in DOMAIN v.val : TextKeysOnly(v.val[i])
      [] v.kind = MapT -> FALSE
      [] OTHER -> TRUE

\* C1: when transformData succeeds, every mapping of the tree it returns, at
\* every depth, inside mappings and inside sequences, has text keys only.
OutputKeysAreText ==
    \A i \in Ran : ~IsKeyTypeError(Run(i).err) => TextKeysOnly(Run(i).jm)

\* A converted sequence that holds a mapping with an int key.
OutputKeysAreText_Witness ==
    \E i \in Ran :
        /\ Run(i).err = NoErr
        /\ Run(i).iter.kind = SliceT
        /\ \E e \in DOMAIN Run(i).iter.val :
              /\ Run(i).iter.val[e].kind = MapT
              /\ \E j \in DOMAIN Run(i).iter.val[e].val :
                    Run(i).iter.val[e].val[j].k.kind = IntT

-----------------------------------------------------------------------------
(* C2 *)

\* C2: a string key is used unchanged and every integer key, whatever its
\* magnitude or sign, becomes its canonical decimal text; string and integer
\* keys never make the conversion fail.
IntegerKeysRendered ==
    \A i \in Ran :
        KeyKindsOf(Run(i).iter) \subseteq {StringT} \cup IntegerKinds =>
            /\ ~IsKeyTypeError(Run(i).err)
            /\ Image(Run(i).iter, Run(i).jm, FALSE, FALSE)

-----------------------------------------------------------------------------
(* C3 *)

\* C3: a document with a float, boolean or null key at any depth is refused
\* whatever the order its entries are visited in: the error names the type of
\* a key of the document that is no string and no int, and no tree and no
\* bytes are returned.
UnsupportedKeyRefused ==
    \A i \in Ran :
        KeyKindsOf(Run(i).iter) \cap {FloatT, BoolT, NilT} # {} =>
            /\ Run(i).jm = Nil
            /\ Run(i).json = ""
            /\ \E k \in KeysOf(Run(i).iter) :
                  /\ k.kind \notin {StringT, IntT}
                  /\ Run(i).err = KeyTypeError(k)

\* A refused mapping whose unsupported key was visited after a supported one.
UnsupportedKeyRefused_Witness ==
    \E i \in Ran :
        /\ Run(i).iter.kind = MapT
        /\ Len(Run(i).iter.val) = 2
        /\ Run(i).iter.val[1].k.kind = StringT
        /\ Run(i).iter.val[2].k.kind \in {FloatT, BoolT, NilT}
        /\ IsKeyTypeError(Run(i).err)

-----------------------------------------------------------------------------
(* C4 *)

\* out has the shape of in: a sequence for a sequence, of the same length and
\* in the same order, a mapping for a mapping, the same scalar for a scalar.
RECURSIVE SameShape(_, _)
SameShape(in, out) ==
    CASE in.kind = SliceT ->
            /\ out.kind = SliceT
            /\ Len(out.val) = Len(in.val)
            /\ \A i \in DOMAIN in.val : SameShape(in.val[i], out.val[i])
      [] in.kind = MapT ->
            /\ out.kind = MapStrT
            /\ \A sk \in DOMAIN out.val :
                  \E i \in DOMAIN in.val : SameShape(in.val[i].v, out.val[sk])
      [] OTHER -> out = in

\* C4: when transformData succeeds, a sequence at any depth becomes a sequence
\* of the same length whose i-th element is the i-th element converted; a
\* scalar is returned unchanged and no node changes its kind.
SequencesPreserved ==
    \A i \in Ran :
        ~IsKeyTypeError(Run(i).err) => SameShape(Run(i).iter, Run(i).jm)

\* A converted sequence of a scalar and a mapping, in both orders.
SequencesPreserved_Witness ==
    \E i \in Ran :
        /\ Run(i).err = NoErr
        /\ Run(i).iter.kind = SliceT
        /\ Len(Run(i).iter.val) = 2
        /\ Run(i).iter.val[1].kind = StringT
        /\ Run(i).iter.val[2].kind = MapT
        /\ Run(i).iter.val[2].val # <<>>

-----------------------------------------------------------------------------
(* C5 *)

\* C5: for a document whose keys are strings and integers only, the bytes
\* YAMLToJSON returns read back as a tree of the same shape, with as many
\* entries in every mapping, the same scalars, and every integer key as its
\* decimal text.
RoundTripIsomorphic ==
    \A i \in Ran :
        KeyKindsOf(Run(i).iter) \subseteq {StringT} \cup IntegerKinds =>
            /\ Run(i).err = NoErr
            /\ IsJSON(Run(i).json)
            /\ Image(Run(i).iter, ParseJSON(Run(i).json), TRUE, TRUE)

\* C5 as amended: for a document whose keys are strings and integers only and
\* whose floats are numbers: when every integer key is an int, the bytes read
\* back as a tree of the same shape and scalars in which every mapping has one
\* entry for each distinct key text, holding the value of one of the entries
\* with that text (keys 1 and "1" give one entry), every int key as its decimal
\* text; when an integer key is no int, the conversion fails (C2).
RoundTripUpToMergedKeys ==
    \A i \in Ran :
        /\ KeyKindsOf(Run(i).iter) \subseteq {StringT} \cup IntegerKinds
        /\ ~HasNaN(Run(i).iter)
        => IF KeyKindsOf(Run(i).iter) \subseteq {StringT, IntT}
           THEN /\ Run(i).err = NoErr
                /\ IsJSON(Run(i).json)
                /\ Image(Run(i).iter, ParseJSON(Run(i).json), TRUE, FALSE)
           ELSE IsKeyTypeError(Run(i).err) /\ Run(i).json = ""

\* A converted mapping with two keys that coerce to one text, such as 1 and
\* "1", read back with one entry.
RoundTripUpToMergedKeys_Witness ==
    \E i \in Ran :
        /\ Run(i).err = NoErr
        /\ Run(i).iter.kind = MapT
        /\ Len(Run(i).iter.val) = 2
        /\ Collide(Run(i).iter.val[1].k, Run(i).iter.val[2].k)
        /\ Cardinality(DOMAIN ParseJSON(Run(i).json).val) = 1

-----------------------------------------------------------------------------
(* C10 *)

\* Two calls end alike: both with an error, or both with the same bytes.
SameOutcome(r1, r2) ==
    \/ r1.err # NoErr /\ r2.err # NoErr
    \/ r1.err = NoErr /\ r2.err = NoErr /\ r1.json = r2.json

\* C10: two runs of YAMLToJSON on one document end alike, whatever the order
\* the entries are visited in, also when two keys of a mapping have one text.
ConversionDeterministic ==
    \A i, j \in Ran : SameOutcome(Run(i), Run(j))

\* C10 as amended: two runs of YAMLToJSON on a document in which no mapping
\* has two keys with the same text end alike, whatever the order the entries
\* are visited in.
DeterministicWithoutCollision ==
    ~HasCollision(data) => \A i, j \in Ran : SameOutcome(Run(i), Run(j))

\* Two runs that visited the entries in different orders and returned bytes.
DeterministicWithoutCollision_Witness ==
    /\ ~HasCollision(data)
    /\ \E i, j \in Ran :
          /\ Run(i).iter # Run(j).iter
          /\ Run(i).err = NoErr
          /\ Run(j).err = NoErr
-----------------------------------------------------------------------------
(* C6 *)

\* The arguments that are no flags: locations and destinations.
Operands == { t \in ArgTokens : At(t, 1) # "-" }

Exited == pc = "exited"

\* C6: run with one location and the -output flag naming a destination, a
\* successful conversion is written to the destination and not to standard
\* output; run with the location alone, it is written to standard output; in
\* both cases the document loaded is the one the location names.
OutputFlagHonoured ==
    \A location \in Operands :
        /\ \A destination \in Operands :
              args \in { <<"-output", destination, location>>,
                         <<"-output=" \o destination, location>> } =>
                  /\ \A i \in DOMAIN loads : loads[i].path = location
                  /\ Exited /\ exit = 0 =>
                        /\ stdout = ""
                        /\ destination \in DOMAIN files
                        /\ files[destination] = json
        /\ args = <<location>> =>
              /\ \A i \in DOMAIN loads : loads[i].path = location
              /\ Exited /\ exit = 0 /\ failed = "" =>
                    stdout = json \o "\n" /\ files = NoFiles

-----------------------------------------------------------------------------
(* C7 *)

StageOrder == <<"load", "parse", "normalize", "serialize", "emit">>

Emitted ==
    IF output = "" THEN stdout = json \o "\n"
    ELSE output \in DOMAIN files /\ files[output] = json

\* C7: the stages run in the order load, parse, normalize, serialize, emit;
\* once one fails (or the argument is missing) no later stage runs, nothing is
\* written to standard output or to a file, a message is on the error stream
\* and the exit code is not 0; the exit code is 0 only when every stage
\* succeeded and the output was emitted.
PipelineTerminal ==
    /\ Len(stages) <= Len(StageOrder)
    /\ stages = SubSeq(StageOrder, 1, Len(stages))
    /\ Exited /\ failed # "" =>
          /\ stages = <<>> \/ stages[Len(stages)] = failed
          /\ stdout = ""
          /\ files = NoFiles
          /\ stderr # <<>>
          /\ exit # 0
    /\ Exited /\ exit = 0 =>
          /\ failed = ""
          /\ stages = StageOrder
          /\ Emitted

-----------------------------------------------------------------------------
(* C8 *)

\* C8: the remote loader is picked exactly when the location begins with the
\* prefix of line 66, and exactly one loader is called, once, with the
\* location as given; so a local file path is read from the file system and a
\* URL is fetched over the network.
LoaderMatchesLocation ==
    /\ Len(loads) <= 1
    /\ \A i \in DOMAIN loads :
          /\ loads[i].path = args[1]
          /\ loads[i].loader = "loadHTTPBytes" <=> HasPrefix(loads[i].path, "http")
          /\ IsURL(loads[i].path) => loads[i].loader = "loadHTTPBytes"
          /\ ~IsURL(loads[i].path) => loads[i].loader = "ReadFile"

-----------------------------------------------------------------------------
(* C9 *)

\* loadHTTPBytes was called and has returned.
Fetched ==
    /\ loads # <<>>
    /\ loads[1].loader = "loadHTTPBytes"
    /\ pc \notin {"loadHTTPBytes", "Do", "status", "return"}

====
